---- MODULE Spec2Model ----
(***************************************************************************)
(* The PostgreSQL ingestion pipeline of police_data                        *)
(* (src/police_data/src/postgre/upload_to_prod.py), the proximity query of *)
(* src/app.py and the normalisation of a downloaded table                  *)
(* (src/police_data/src/extract/common/transformations.py), as a state     *)
(* machine; beside them the staging-to-production script of BigQuery       *)
(* (src/police_data/src/bigquery/prod/insert.py) and                       *)
(* clean_and_reorganise_data                                               *)
(* (src/police_data/src/extract/common/file_manipulation.py), each under   *)
(* a specification of its own.                                             *)
(*                                                                         *)
(* Python strings the code parses, formats or compares (dates, path        *)
(* components, column names) are sequences of one-character strings.       *)
(*                                                                         *)
(* Tables are sequences of rows in insertion order.  Every statement the   *)
(* code commits on its own connection is one step; upload_staging_to_prod  *)
(* is split at its statements (execute, commit, except/finally) so that a  *)
(* concurrent reader can run between them.                                 *)
(***************************************************************************)
EXTENDS Integers, Sequences, FiniteSets, TLC

\* ------------------------------------------------------------------ bounds
MaxFiles == 12
MaxRuns == 2
MaxFaults == 2
MaxMergeCalls == 2
MaxTableRows == 2
MaxProdRows == 3
MaxTreeFiles == 3
MaxDfRows == 2
MaxStagingRows == 2
MaxSourceFiles == 2

\* ------------------------------------------------------- program constants
\* upload_to_prod.py:202   if loading_count == 5:
BatchSize == 5

VARIABLES
    schema,         \* DDL of crimes_prod: "no_key" | "primary_key"
    run_config,     \* main: RUN_CONFIG (data_path, start_date, end_date)
    tree,           \* the file system under data_path, as os.walk lists it
    catalog,        \* main: outcome of the call of extract_relevant_csv_files
    files,          \* main: the returned paths, each named by its position
    df,             \* format_dataframe: the DataFrame object the caller passes
    formatted,      \* format_dataframe: what the call returned or raised
    pc,             \* main: position of the process
    idx,            \* main: number of files the for loop has consumed
    loading_count,  \* main: loading_count
    staging,        \* table crimes_staging (committed rows)
    prod,           \* table crimes_prod (committed rows)
    txn,            \* rows inserted by the open transaction of upload_staging_to_prod
    runs,           \* number of times main was started
    faults,         \* number of store / file faults injected so far
    batch,          \* history: <<[file, ok]>> of the loads since loading_count was 0
    attempted,      \* history: files passed to write_csv_to_staging in this run
    mergeLog,       \* history: one entry per call of upload_staging_to_prod
    clean,          \* history: no step of this run has failed
    qArgs,          \* get_crimes: arguments of the last request
    qStatus,        \* get_crimes: HTTP status of the last response (0: none yet)
    qResults,       \* get_crimes: rows of the last response
    qFault,         \* get_crimes: the store fault met by the last request
    qConn,          \* get_crimes: the local conn when the last request ended
    qRaised,        \* get_crimes: the exception that left the handler
    latitude_mode,      \* BigQuery: mode of the column latitude of the production table
    staging_table,      \* BigQuery: the staging table, when it exists
    production_table,   \* BigQuery: rows of the production table
    bq_pc,              \* bigquery/prod/insert.py: position of the script
    bq_log,             \* bigquery/prod/insert.py: the records logged so far
    source_folder,      \* clean_and_reorganise_data: the year-month folders and files
    output_folder,      \* clean_and_reorganise_data: the files under output_folder
    fm_pc,              \* clean_and_reorganise_data: position of the call
    year_month_folder,  \* clean_and_reorganise_data: index of the folder in the loop
    region_file,        \* clean_and_reorganise_data: index of the file in the loop
    read_df,            \* clean_and_reorganise_data: the local df
    fm_log              \* clean_and_reorganise_data: the records logged so far

vars == <<schema, run_config, tree, catalog, files, df, formatted, pc, idx,
          loading_count, staging, prod, txn, runs, faults, batch, attempted, mergeLog,
          clean, qArgs, qStatus, qResults, qFault, qConn, qRaised,
          latitude_mode, staging_table, production_table, bq_pc, bq_log,
          source_folder, output_folder, fm_pc, year_month_folder, region_file,
          read_df, fm_log>>

extractVars == <<run_config, tree, catalog>>
formatVars == <<df, formatted>>

pipelineVars == <<files, idx, loading_count, runs, batch, attempted, clean>>
queryVars == <<qArgs, qStatus, qResults, qFault, qConn, qRaised>>

bqVars == <<latitude_mode, staging_table, production_table, bq_pc, bq_log>>
reorgVars == <<source_folder, output_folder, fm_pc, year_month_folder, region_file,
               read_df, fm_log>>
scriptVars == <<bqVars, reorgVars>>

\* ----------------------------------------------------------------- helpers
Range(s) == {s[i] : i \in 1..Len(s)}

Last(s) == s[Len(s)]

Prefix(s, k) == SubSeq(s, 1, k)

\* ------------------------------------------------------------- the catalogue
\* One row of a CSV file, in the column order of the COPY statement.
\* File f carries the crimes 2f-1 (and 2f when f is odd) of month f.
CsvRow(f, j) ==
    [crime_id |-> 2 * f - 2 + j,
     month_year |-> f,
     police_force |-> "force",
     longitude |-> f % 3,
     latitude |-> 0,
     lsoa_code |-> "lsoa",
     crime_type |-> "type",
     location_description |-> "loc"]

FileRows(f) ==
    IF f % 2 = 1 THEN <<CsvRow(f, 1), CsvRow(f, 2)>> ELSE <<CsvRow(f, 1)>>

\* ------------------------------------------------------------ SQL fragments
\* SELECT ..., ST_SetSRID(ST_MakePoint(longitude, latitude), 4326) AS geo_point
ProdRow(s) ==
    [crime_id |-> s.crime_id,
     month_year |-> s.month_year,
     police_force |-> s.police_force,
     longitude |-> s.longitude,
     latitude |-> s.latitude,
     lsoa_code |-> s.lsoa_code,
     crime_type |-> s.crime_type,
     location_description |-> s.location_description,
     geo_point |-> <<s.longitude, s.latitude>>]

SelectFromStaging(stg) == [i \in 1..Len(stg) |-> ProdRow(stg[i])]

Key(r) == <<r.crime_id, r.month_year>>

\* The first row of `rows` that violates PRIMARY KEY (crime_id) against `table`
\* and the rows before it; 0 when none does.
FirstConflict(table, rows) ==
    LET ids(k) == {table[i].crime_id : i \in 1..Len(table)}
                    \cup {rows[i].crime_id : i \in 1..(k - 1)}
        bad == {k \in 1..Len(rows) : rows[k].crime_id \in ids(k)}
    IN  IF bad = {} THEN 0 ELSE CHOOSE k \in bad : \A m \in bad : k <= m

\* ST_DWithin(geo_point, ST_SetSRID(ST_MakePoint(lon, lat), 4326), radius), with
\* the geodetic distance taken on an integer grid.
ST_DWithin(point, lon, lat, radius) ==
    (point[1] - lon) * (point[1] - lon) + (point[2] - lat) * (point[2] - lat)
        <= radius * radius

\* The eight columns get_crimes selects (geo_point is not among them).
QueryRow(r) ==
    [crime_id |-> r.crime_id,
     month_year |-> r.month_year,
     police_force |-> r.police_force,
     longitude |-> r.longitude,
     latitude |-> r.latitude,
     lsoa_code |-> r.lsoa_code,
     crime_type |-> r.crime_type,
     location_description |-> r.location_description]

\* A faulty SelectWithin: the query stops at the first row it finds.
SelectFirstWithin(table, lon, lat, radius) ==
    LET Near(r) == ST_DWithin(r.geo_point, lon, lat, radius)
        hits == SelectSeq(table, Near)
    IN  IF hits = <<>> THEN <<>> ELSE <<QueryRow(hits[1])>>

SelectWithin(table, lon, lat, radius) ==
    LET Near(r) == ST_DWithin(r.geo_point, lon, lat, radius)
        hits == SelectSeq(table, Near)
    IN  [i \in 1..Len(hits) |-> QueryRow(hits[i])]

QueryLongitudes == {0}
QueryRadii == {1}

\* The store faults of a request: none, get_connection() raises, or
\* cursor.execute / fetchall raises.
StoreFaults == {"none", "connect", "execute"}

\* ------------------------------------------------- strings, dates and paths
Digits == <<"0", "1", "2", "3", "4", "5", "6", "7", "8", "9">>

IsDigit(c) == c \in Range(Digits)

DigitVal(c) == CHOOSE d \in 0..9 : Digits[d + 1] = c

\* The character of the last decimal digit of n.
Digit(n) == Digits[(n % 10) + 1]

\* The suffix ".csv".
DotCsv == <<".", "c", "s", "v">>

\* file.endswith(".csv")
endswith(str, suffix) ==
    /\ Len(str) >= Len(suffix)
    /\ SubSeq(str, Len(str) - Len(suffix) + 1, Len(str)) = suffix

\* str.replace(old, ""): every occurrence of old is removed, left to right.
RECURSIVE remove(_, _)
remove(str, old) ==
    IF Len(str) < Len(old) THEN str
    ELSE IF SubSeq(str, 1, Len(old)) = old
         THEN remove(SubSeq(str, Len(old) + 1, Len(str)), old)
         ELSE <<str[1]>> \o remove(SubSeq(str, 2, Len(str)), old)

\* datetime.strptime(str, "%Y-%m").  %Y is four digits, %m is 1[0-2], 0[1-9] or
\* [1-9] tried in this order, the whole string must be consumed, and the year
\* must be at least 1; otherwise ValueError (ok is FALSE).
strptime(str) ==
    LET yearOk == /\ Len(str) >= 5
                  /\ \A i \in 1..4 : IsDigit(str[i])
                  /\ str[5] = "-"
        year == 1000 * DigitVal(str[1]) + 100 * DigitVal(str[2])
                  + 10 * DigitVal(str[3]) + DigitVal(str[4])
        rest == SubSeq(str, 6, Len(str))
        two == /\ Len(rest) = 2
               /\ \/ rest[1] = "1" /\ rest[2] \in {"0", "1", "2"}
                  \/ rest[1] = "0" /\ IsDigit(rest[2]) /\ rest[2] # "0"
        one == Len(rest) = 1 /\ IsDigit(rest[1]) /\ rest[1] # "0"
    IN  IF yearOk /\ (two \/ one) /\ year >= 1
        THEN [ok |-> TRUE,
              year |-> year,
              month |-> IF two THEN 10 * DigitVal(rest[1]) + DigitVal(rest[2])
                        ELSE DigitVal(rest[1])]
        ELSE [ok |-> FALSE, year |-> 0, month |-> 0]

\* current.strftime("%Y-%m"), for a year of four digits.
strftime(current) ==
    LET y == current[1]
        m == current[2]
    IN  <<Digit(y \div 1000), Digit(y \div 100),
          Digit(y \div 10), Digit(y), "-",
          Digit(m \div 10), Digit(m)>>

\* A faulty NotAfter: the month of end_date is left out of the window.
Before(current, end) ==
    current[1] < end[1] \/ (current[1] = end[1] /\ current[2] < end[2])

\* current <= end, for two datetimes on the first day of a month.
NotAfter(current, end) ==
    current[1] < end[1] \/ (current[1] = end[1] /\ current[2] <= end[2])

\* Lines 60-64: next_month = current.month + 1; the year grows by
\* next_month // 13 and the month becomes (next_month % 12) or 12.
next_month(current) ==
    <<current[1] + ((current[2] + 1) \div 13),
      IF (current[2] + 1) % 12 = 0 THEN 12 ELSE (current[2] + 1) % 12>>

\* Lines 55-64: the loop that builds date_range.
RECURSIVE date_range(_, _)
date_range(current, end) ==
    IF NotAfter(current, end)
    THEN <<strftime(current)>> \o date_range(next_month(current), end)
    ELSE <<>>

\* Line 75: the last but one component of file_path.split('/'), "-", and the
\* last component with ".csv" removed.  A path is the sequence of its components,
\* those of data_folder included (os.path.join puts '/' between them).
month_year(file_path) ==
    file_path[Len(file_path) - 1] \o <<"-">> \o remove(Last(file_path), DotCsv)

\* os.path.exists(data_folder)
os_path_exists(fs, data_folder) == fs.exists /\ fs.root = data_folder

\* os.walk(data_folder), flattened to the files in the order they are listed;
\* nothing when the folder does not exist.
os_walk(fs, data_folder) ==
    IF os_path_exists(fs, data_folder) THEN fs.walk ELSE <<>>

\* A faulty extract_relevant_csv_files: the test of the folder is missing.
extract_relevant_csv_files_unvalidated(fs, data_folder, start_date, end_date) ==
    LET start == strptime(start_date)
        end == strptime(end_date)
        dates == Range(date_range(<<start.year, start.month>>, <<end.year, end.month>>))
        Relevant(file_path) ==
            endswith(Last(file_path), DotCsv) /\ month_year(file_path) \in dates
    IN  IF ~start.ok \/ ~end.ok
        THEN [error |-> "ValueError", csv_files |-> <<>>]
        ELSE [error |-> "none",
              csv_files |-> SelectSeq(os_walk(fs, data_folder), Relevant)]

\* extract_relevant_csv_files, lines 22-82.  The except clause of line 78 has
\* nothing to catch: a joined path has at least two components.
extract_relevant_csv_files(fs, data_folder, start_date, end_date) ==
    LET start == strptime(start_date)
        end == strptime(end_date)
        dates == Range(date_range(<<start.year, start.month>>, <<end.year, end.month>>))
        Relevant(file_path) ==
            endswith(Last(file_path), DotCsv) /\ month_year(file_path) \in dates
    IN  IF ~os_path_exists(fs, data_folder)
        THEN [error |-> "FileNotFoundError", csv_files |-> <<>>]
        ELSE IF ~start.ok \/ ~end.ok
        THEN [error |-> "ValueError", csv_files |-> <<>>]
        ELSE [error |-> "none",
              csv_files |-> SelectSeq(os_walk(fs, data_folder), Relevant)]

\* --------------------------------------------- sample file systems and windows
DataPath == <<<<"d", "a", "t", "a">>>>

Region(name) == <<<<name>>>>

\* The text of a year and of a month as the directory tree spells them.
YearDir(y) ==
    <<Digit(y \div 1000), Digit(y \div 100),
      Digit(y \div 10), Digit(y)>>

MonthCsv(m) == <<Digit(m \div 10), Digit(m)>> \o DotCsv

\* data_path/region/year/month.csv
PathOf(name, y, m) == DataPath \o Region(name) \o <<YearDir(y), MonthCsv(m)>>

\* The k-th month counted from January 2023 (k = 0: December 2022).
MonthNo(k) == <<2022 + ((k + 11) \div 12), ((k + 11) % 12) + 1>>

\* The tree of a run of main: one region with the months 1..MaxFiles.
MonthlyTree ==
    [exists |-> TRUE,
     root |-> DataPath,
     walk |-> [k \in 1..MaxFiles |-> PathOf("a", MonthNo(k)[1], MonthNo(k)[2])]]

NoTree == [exists |-> FALSE, root |-> DataPath, walk |-> <<>>]

\* Texts that are not a year and a month.
MalformedDates ==
    {<<"2", "0", "2", "3", "-", "1", "3">>,
     <<"2", "0", "2", "3", "/", "0", "7">>,
     <<"2", "3", "-", "0", "7">>,
     <<"2", "0", "2", "3", "-", "0", "7", "-", "0", "1">>,
     <<>>}

RunConfig(start_date, end_date) ==
    [data_path |-> DataPath, start_date |-> start_date, end_date |-> end_date]

\* The windows of a run of main: from January 2023 to the month k, for k in
\* 0..MaxFiles; and windows one of whose ends is malformed.
RunWindows ==
    {RunConfig(strftime(MonthNo(1)), strftime(MonthNo(k))) : k \in 0..MaxFiles}

BadWindows ==
    {RunConfig(d, strftime(MonthNo(1))) : d \in MalformedDates}
        \cup {RunConfig(strftime(MonthNo(1)), d) : d \in MalformedDates}

NotCalled == [error |-> "not called", csv_files |-> <<>>]

\* Files for the trees of CatalogSpec: four that are region/year/month.csv, one
\* directly in a year directory of the root, one nested one level deeper, and
\* one that is not a CSV file.
SamplePaths ==
    {PathOf("a", 2023, 7), PathOf("a", 2023, 12), PathOf("b", 2024, 1),
     PathOf("a", 2022, 7),
     DataPath \o <<YearDir(2023), MonthCsv(7)>>,
     DataPath \o Region("a") \o Region("b") \o <<YearDir(2023), MonthCsv(12)>>,
     DataPath \o Region("a") \o <<YearDir(2023), <<"0", "7", ".", "t", "x", "t">>>>}

\* The tree 2023/07, 2023/08, 2023/09, 2023/10, 2022/07 of one region.
ExampleTree ==
    [exists |-> TRUE,
     root |-> DataPath,
     walk |-> <<PathOf("a", 2023, 7), PathOf("a", 2023, 8), PathOf("a", 2023, 9),
                PathOf("a", 2023, 10), PathOf("a", 2022, 7)>>]

\* The trees of at most MaxTreeFiles sample files, in any listing order.
SampleTrees ==
    {[exists |-> TRUE, root |-> DataPath, walk |-> w] :
        w \in {v \in UNION {[1..n -> SamplePaths] : n \in 0..MaxTreeFiles} :
                  \A i, j \in 1..Len(v) : i # j => v[i] # v[j]}}
        \cup {ExampleTree, NoTree}

SampleDates ==
    {strftime(<<2022, 12>>), strftime(<<2023, 7>>), strftime(<<2023, 9>>),
     strftime(<<2024, 1>>),
     <<"2", "0", "2", "3", "-", "7">>,
     <<"2", "0", "2", "3", "-", "1", "3">>}

\* ------------------------------------------------------- format_dataframe
\* transformations.py, lines 5-25.
SELECT_COLS ==
    <<<<"c", "r", "i", "m", "e", "_", "i", "d">>,
      <<"m", "o", "n", "t", "h">>,
      <<"f", "a", "l", "l", "s", "_", "w", "i", "t", "h", "i", "n">>,
      <<"l", "o", "n", "g", "i", "t", "u", "d", "e">>,
      <<"l", "a", "t", "i", "t", "u", "d", "e">>,
      <<"l", "s", "o", "a", "_", "c", "o", "d", "e">>,
      <<"c", "r", "i", "m", "e", "_", "t", "y", "p", "e">>,
      <<"l", "o", "c", "a", "t", "i", "o", "n">>>>

RENAMED_COLUMNS ==
    <<<<"c", "r", "i", "m", "e", "_", "i", "d">>,
      <<"m", "o", "n", "t", "h", "_", "y", "e", "a", "r">>,
      <<"p", "o", "l", "i", "c", "e", "_", "f", "o", "r", "c", "e">>,
      <<"l", "o", "n", "g", "i", "t", "u", "d", "e">>,
      <<"l", "a", "t", "i", "t", "u", "d", "e">>,
      <<"l", "s", "o", "a", "_", "c", "o", "d", "e">>,
      <<"c", "r", "i", "m", "e", "_", "t", "y", "p", "e">>,
      <<"l", "o", "c", "a", "t", "i", "o", "n", "_", "d", "e", "s", "c", "r", "i", "p", "t", "i", "o", "n">>>>

UpperCase ==
    <<"A", "B", "C", "D", "E", "F", "G", "H", "I", "J", "K", "L", "M", "N", "O", "P", "Q", "R", "S", "T", "U", "V", "W", "X", "Y", "Z">>

LowerCase ==
    <<"a", "b", "c", "d", "e", "f", "g", "h", "i", "j", "k", "l", "m", "n", "o", "p", "q", "r", "s", "t", "u", "v", "w", "x", "y", "z">>

\* str.lower(), one character.
lower(c) ==
    IF c \in Range(UpperCase)
    THEN LowerCase[CHOOSE i \in 1..Len(UpperCase) : UpperCase[i] = c]
    ELSE c

\* col.replace(" ", "_").lower()
normalise(col) == [i \in 1..Len(col) |-> lower(IF col[i] = " " THEN "_" ELSE col[i])]

\* A missing value (NaN).
NaN == "NaN"

notna(value) == value # NaN

\* A DataFrame: its column labels and its rows, one value per column.
DataFrame(columns, rows) == [columns |-> columns, rows |-> rows]

\* A faulty empty: a table without rows is not seen as empty.
never_empty(frame) == FALSE

\* df.empty: no row or no column.
empty(frame) == Len(frame.rows) = 0 \/ Len(frame.columns) = 0

\* The position of the column labelled col (labels are distinct).
loc(frame, col) == CHOOSE j \in 1..Len(frame.columns) : frame.columns[j] = col

\* Line 54: the labels of SELECT_COLS that are not labels of the frame.
missing_cols(frame) ==
    LET Absent(col) == col \notin Range(frame.columns)
    IN  SelectSeq(SELECT_COLS, Absent)

\* df[SELECT_COLS]: a new frame with these columns, in this order.
select(frame, cols) ==
    DataFrame(cols,
              [i \in 1..Len(frame.rows) |->
                  [k \in 1..Len(cols) |-> frame.rows[i][loc(frame, cols[k])]]])

\* df[df[col].notna()]
dropna(frame, col) ==
    LET Present(row) == notna(row[loc(frame, col)])
    IN  DataFrame(frame.columns, SelectSeq(frame.rows, Present))

\* A faulty drop_duplicates: every row is kept.
keep_duplicates(rows) == rows

\* df.drop_duplicates(): of equal rows the first is kept.
drop_duplicates(rows) ==
    LET first == {i \in 1..Len(rows) : \A j \in 1..(i - 1) : rows[j] # rows[i]}
        RECURSIVE keep(_)
        keep(i) == IF i > Len(rows) THEN <<>>
                   ELSE (IF i \in first THEN <<rows[i]>> ELSE <<>>) \o keep(i + 1)
    IN  keep(1)

\* df.columns = columns, an assignment to the object df names.
set_columns(frame, columns) == DataFrame(columns, frame.rows)

Raised(error) == [error |-> error, columns |-> <<>>, rows |-> <<>>]

Returned(frame) == [error |-> "none", columns |-> frame.columns, rows |-> frame.rows]

NoFrame == DataFrame(<<>>, <<>>)

NotFormatted == Raised("not called")

\* Lines 58-76, on the frame whose labels are normalised and complete.
\* RENAMED_COLUMNS are set on the frame line 59 created, not on the caller's.
select_and_clean(frame) ==
    LET renamed == set_columns(select(frame, SELECT_COLS), RENAMED_COLUMNS)
        located == dropna(dropna(renamed, RENAMED_COLUMNS[4]), RENAMED_COLUMNS[5])
        identified == dropna(located, RENAMED_COLUMNS[1])
    IN  DataFrame(identified.columns, drop_duplicates(identified.rows))

\* format_dataframe(df), lines 28-76.
format_dataframe ==
    /\ pc = "format"
    /\ IF empty(df)
       THEN /\ formatted' = Raised("ValueError")
            /\ df' = df
       ELSE /\ df' = set_columns(df, [j \in 1..Len(df.columns) |-> normalise(df.columns[j])])
            /\ formatted' = IF missing_cols(df') # <<>>
                            THEN Raised("KeyError")
                            ELSE Returned(select_and_clean(df'))
    /\ pc' = "formatted"
    /\ UNCHANGED <<schema, staging, prod, txn, faults, mergeLog>>
    /\ UNCHANGED pipelineVars
    /\ UNCHANGED queryVars
    /\ UNCHANGED extractVars
    /\ UNCHANGED scriptVars

\* -------------------------------------------------------------------- Init
\* The BigQuery script and clean_and_reorganise_data have not been started.
BqAtRest ==
    /\ latitude_mode = "NULLABLE"
    /\ staging_table = [exists |-> FALSE, columns |-> "none", rows |-> <<>>]
    /\ production_table = <<>>
    /\ bq_pc = "idle"
    /\ bq_log = <<>>

ReorgAtRest ==
    /\ source_folder = <<>>
    /\ output_folder = {}
    /\ fm_pc = "idle"
    /\ year_month_folder = 0
    /\ region_file = 0
    /\ read_df = <<>>
    /\ fm_log = <<>>

ScriptsAtRest == BqAtRest /\ ReorgAtRest

Schemas == {"no_key", "primary_key"}

Init ==
    /\ schema \in Schemas
    /\ \/ tree = MonthlyTree /\ run_config \in RunWindows \cup BadWindows
       \/ tree = NoTree /\ run_config \in RunWindows
    /\ catalog = NotCalled
    /\ df = NoFrame
    /\ formatted = NotFormatted
    /\ files = <<>>
    /\ pc = "idle"
    /\ idx = 0
    /\ loading_count = 0
    /\ staging = <<>>
    /\ prod = <<>>
    /\ txn = <<>>
    /\ runs = 0
    /\ faults = 0
    /\ batch = <<>>
    /\ attempted = <<>>
    /\ mergeLog = <<>>
    /\ clean = TRUE
    /\ qArgs = <<>>
    /\ qStatus = 0
    /\ qResults = <<>>
    /\ qFault = "none"
    /\ qConn = "unbound"
    /\ qRaised = "none"
    /\ ScriptsAtRest

\* ------------------------------------------------------------------- main
\* main(), lines 173-192: resolve the files, loading_count = 0, enter the loop.
\* An exception of extract_relevant_csv_files is not caught: it ends main.
main_begin ==
    /\ catalog' = extract_relevant_csv_files(tree, run_config.data_path,
                                             run_config.start_date, run_config.end_date)
    /\ files' = [k \in 1..Len(catalog'.csv_files) |-> k]
    /\ pc' = IF catalog'.error = "none" THEN "loop" ELSE "aborted"
    /\ runs' = runs + 1
    /\ idx' = 0
    /\ loading_count' = 0
    /\ batch' = <<>>
    /\ attempted' = <<>>
    /\ clean' = TRUE
    /\ UNCHANGED <<schema, staging, prod, txn, faults, mergeLog>>
    /\ UNCHANGED queryVars
    /\ UNCHANGED <<run_config, tree>>
    /\ UNCHANGED formatVars
    /\ UNCHANGED scriptVars

\* The first run of the script against freshly created tables.
main_start ==
    /\ pc = "idle"
    /\ main_begin

\* The script is run again with the same run_config, against the tables as the
\* previous run left them.
main_restart ==
    /\ pc = "done"
    /\ runs < MaxRuns
    /\ main_begin

\* A faulty write_csv_to_staging: a failed load rolls back the loads made before
\* it, as it would if the batch shared one transaction.
write_csv_to_staging_wipe(f, ok) ==
    staging' = IF ok THEN staging \o FileRows(f) ELSE <<>>

\* write_csv_to_staging: COPY ... FROM STDIN and commit; any exception is logged
\* and swallowed, and the connection is closed without a commit.
write_csv_to_staging(f, ok) ==
    staging' = IF ok THEN staging \o FileRows(f) ELSE staging

\* A faulty AfterLoad: the exception of a failed load is not caught and ends main.
AfterLoadRaising(ok) ==
    IF ~ok THEN "crashed"
    ELSE IF loading_count + 1 = BatchSize THEN "upload" ELSE "loop"

\* Where main goes after write_csv_to_staging returned: loading_count += 1 and
\* the test of line 202.  The call returns normally whether the load failed or not.
AfterLoad(ok) ==
    IF loading_count + 1 = BatchSize THEN "upload" ELSE "loop"

\* One iteration of the for loop up to the test of line 202.
main_stage_file ==
    /\ pc = "loop"
    /\ idx < Len(files)
    /\ \E ok \in BOOLEAN :
        /\ ~ok => faults < MaxFaults
        /\ write_csv_to_staging(files[idx + 1], ok)
        /\ faults' = IF ok THEN faults ELSE faults + 1
        /\ batch' = Append(batch, [file |-> files[idx + 1], ok |-> ok])
        /\ clean' = (clean /\ ok)
        /\ pc' = AfterLoad(ok)
    /\ attempted' = Append(attempted, files[idx + 1])
    /\ idx' = idx + 1
    /\ loading_count' = loading_count + 1
    /\ UNCHANGED <<schema, files, prod, txn, runs, mergeLog>>
    /\ UNCHANGED queryVars
    /\ UNCHANGED extractVars
    /\ UNCHANGED scriptVars
    /\ UNCHANGED formatVars

\* The for loop is exhausted: main returns.  Nothing follows the loop.
main_exit ==
    /\ pc = "loop"
    /\ idx = Len(files)
    /\ pc' = "done"
    /\ UNCHANGED <<schema, files, idx, loading_count, staging, prod, txn, runs,
                   faults, batch, attempted, mergeLog, clean>>
    /\ UNCHANGED queryVars
    /\ UNCHANGED extractVars
    /\ UNCHANGED scriptVars
    /\ UNCHANGED formatVars

\* ------------------------------------------------- upload_staging_to_prod
\* The history entry of one call: the run, the loads of the batch, the staging
\* table and the size of the production table as the call found them.
LogEntry(status) ==
    [run |-> runs, files |-> batch, staged |-> staging, before |-> Len(prod),
     status |-> status]

SetStatus(status) ==
    mergeLog' = [mergeLog EXCEPT ![Len(mergeLog)].status = status]

\* A faulty InsertIntoProd: the connection is in autocommit mode and every row
\* is visible as soon as it is inserted.
InsertIntoProdAutocommit(rows) ==
    /\ txn' = <<>>
    /\ prod' = prod \o rows

\* INSERT INTO crimes_prod ... : the rows go to the connection's open transaction;
\* nothing is visible to other connections before connection.commit().
InsertIntoProd(rows) ==
    /\ txn' = rows
    /\ prod' = prod

\* cursor.execute(INSERT INTO crimes_prod ... SELECT ... FROM crimes_staging),
\* lines 121-147.  The statement has no ON CONFLICT clause and no WHERE clause:
\* it inserts one row per staging row.  It fails at the first row that violates
\* the primary key, when the table has one, or at any row on a store fault
\* (psycopg2.connect failing is the fault before the first row).
upload_execute ==
    /\ pc = "upload"
    /\ LET rows == SelectFromStaging(staging)
           k == IF schema = "primary_key" THEN FirstConflict(prod, rows) ELSE 0
           lastSafe == IF k > 0 THEN k - 1
                       ELSE IF Len(rows) = 0 THEN 0 ELSE Len(rows) - 1
       IN  \/ /\ k = 0
              /\ InsertIntoProd(rows)
              /\ mergeLog' = Append(mergeLog, LogEntry("running"))
              /\ pc' = "upload_commit"
              /\ UNCHANGED faults
           \/ /\ k > 0
              /\ InsertIntoProd(Prefix(rows, k - 1))
              /\ mergeLog' = Append(mergeLog, LogEntry("failed"))
              /\ pc' = "upload_failed"
              /\ UNCHANGED faults
           \/ /\ faults < MaxFaults
              /\ \E j \in 0..lastSafe : InsertIntoProd(Prefix(rows, j))
              /\ mergeLog' = Append(mergeLog, LogEntry("failed"))
              /\ pc' = "upload_failed"
              /\ faults' = faults + 1
    /\ UNCHANGED <<schema, staging>>
    /\ UNCHANGED pipelineVars
    /\ UNCHANGED queryVars
    /\ UNCHANGED extractVars
    /\ UNCHANGED scriptVars
    /\ UNCHANGED formatVars

\* connection.commit(), line 148: the transaction's rows become visible at once.
upload_commit ==
    /\ pc = "upload_commit"
    /\ \/ /\ prod' = prod \o txn
          /\ txn' = <<>>
          /\ SetStatus("ok")
          /\ pc' = "uploaded"
          /\ UNCHANGED faults
       \/ /\ faults < MaxFaults
          /\ SetStatus("failed")
          /\ pc' = "upload_failed"
          /\ faults' = faults + 1
          /\ UNCHANGED <<prod, txn>>
    /\ UNCHANGED <<schema, staging>>
    /\ UNCHANGED pipelineVars
    /\ UNCHANGED queryVars
    /\ UNCHANGED extractVars
    /\ UNCHANGED scriptVars
    /\ UNCHANGED formatVars

\* except Exception: log.error(...); finally: connection.close(), lines 149-153.
\* Closing the connection discards the uncommitted rows; the function returns
\* None, as it does on success.
upload_except ==
    /\ pc = "upload_failed"
    /\ txn' = <<>>
    /\ clean' = FALSE
    /\ pc' = "uploaded"
    /\ UNCHANGED <<schema, files, idx, loading_count, staging, prod, runs, faults,
                   batch, attempted, mergeLog>>
    /\ UNCHANGED queryVars
    /\ UNCHANGED extractVars
    /\ UNCHANGED scriptVars
    /\ UNCHANGED formatVars

\* ------------------------------------------------------- truncate_staging
\* TRUNCATE TABLE crimes_staging and commit; any exception is logged and
\* swallowed.
truncate_table(ok) ==
    staging' = IF ok THEN <<>> ELSE staging

\* main, lines 206-209: truncate_staging is called whatever upload_staging_to_prod
\* did, then loading_count = 0.
truncate_staging ==
    /\ pc = "uploaded"
    /\ \E ok \in BOOLEAN :
        /\ ~ok => faults < MaxFaults
        /\ truncate_table(ok)
        /\ faults' = IF ok THEN faults ELSE faults + 1
        /\ clean' = (clean /\ ok)
    /\ loading_count' = 0
    /\ batch' = <<>>
    /\ pc' = "loop"
    /\ UNCHANGED <<schema, files, idx, prod, txn, runs, attempted, mergeLog>>
    /\ UNCHANGED queryVars
    /\ UNCHANGED extractVars
    /\ UNCHANGED scriptVars
    /\ UNCHANGED formatVars

\* -------------------------------------------------------------- get_crimes
\* The rows a connection other than the merge's sees: the committed ones.
VisibleProd == prod

\* finally: conn.close(), line 71.  When get_connection() raised, conn was never
\* bound and evaluating it raises UnboundLocalError, which replaces the
\* exception that was on its way out.
finally(opened, pending) == IF opened THEN pending ELSE "UnboundLocalError"

\* The response FastAPI sends: the status of an HTTPException, 500 for any other
\* exception that leaves the handler, 200 for a returned value.
StatusOf(raised) ==
    CASE raised = "none" -> 200
      [] raised = "HTTPException(404)" -> 404
      [] OTHER -> 500

\* get_crimes, src/app.py lines 30-71.  The HTTPException(404) of line 66 is
\* raised inside the try block and caught by `except Exception`, like the errors
\* of the store; the clause raises HTTPException(500) in its place.  fault is the
\* store fault the request meets.
get_crimes(longitude, latitude, radius, fault) ==
    /\ LET opened == fault # "connect"
           results == IF fault = "none"
                      THEN SelectWithin(VisibleProd, longitude, latitude, radius)
                      ELSE <<>>
           inTry == IF fault # "none" THEN "OperationalError"
                    ELSE IF results = <<>> THEN "HTTPException(404)" ELSE "none"
           caught == IF inTry = "none" THEN "none" ELSE "HTTPException(500)"
           raised == finally(opened, caught)
       IN  /\ qArgs' = [longitude |-> longitude, latitude |-> latitude,
                        radius |-> radius]
           /\ qFault' = fault
           /\ qConn' = IF opened THEN "closed" ELSE "unbound"
           /\ qRaised' = raised
           /\ qStatus' = StatusOf(raised)
           /\ qResults' = IF raised = "none" THEN results ELSE <<>>
    /\ UNCHANGED <<schema, pc, staging, prod, txn, faults, mergeLog>>
    /\ UNCHANGED pipelineVars
    /\ UNCHANGED extractVars
    /\ UNCHANGED scriptVars
    /\ UNCHANGED formatVars

\* A request served while main runs; the store does not fault on the reader
\* (the faults of a request are those of QuerySpec).
request_during_run ==
    \E longitude \in QueryLongitudes, radius \in QueryRadii :
        get_crimes(longitude, 0, radius, "none")

\* -------------------------------------------------------------------- Spec
PipelineStep ==
    \/ main_stage_file
    \/ main_exit
    \/ upload_execute
    \/ upload_commit
    \/ upload_except
    \/ truncate_staging

\* One run of main against fresh tables, with get_crimes served concurrently.
Next ==
    \/ main_start
    \/ PipelineStep
    \/ request_during_run

Spec == Init /\ [][Next]_vars

\* The process that runs main is not suspended for ever.
FairSpec == Spec /\ WF_vars(PipelineStep)

\* Up to MaxRuns runs of main, one after the other, on the same tables.
NextRerun ==
    \/ main_start
    \/ main_restart
    \/ PipelineStep
    \/ request_during_run

RerunSpec == Init /\ [][NextRerun]_vars

\* --------------------------------------------------------------- MergeSpec
\* upload_staging_to_prod on its own: called up to MaxMergeCalls times on
\* arbitrary small tables, the staging table never changing in between.
SampleRow(id, type) ==
    [crime_id |-> id,
     month_year |-> 1,
     police_force |-> "force",
     longitude |-> 0,
     latitude |-> 0,
     lsoa_code |-> "lsoa",
     crime_type |-> type,
     location_description |-> "loc"]

SampleRows == {SampleRow(1, "a"), SampleRow(1, "b"), SampleRow(2, "a")}

SampleTables ==
    UNION {[1..n -> SampleRows] : n \in 0..MaxTableRows}

InitMerge ==
    /\ schema \in Schemas
    /\ staging \in SampleTables
    /\ prod \in {SelectFromStaging(t) : t \in SampleTables}
    /\ schema = "primary_key" => FirstConflict(<<>>, prod) = 0
    /\ pc = "upload"
    /\ run_config = RunConfig(strftime(MonthNo(1)), strftime(MonthNo(0)))
    /\ tree = MonthlyTree
    /\ catalog = [error |-> "none", csv_files |-> <<>>]
    /\ df = NoFrame
    /\ formatted = NotFormatted
    /\ files = <<>>
    /\ idx = 0
    /\ loading_count = 0
    /\ txn = <<>>
    /\ runs = 1
    /\ faults = 0
    /\ batch = <<>>
    /\ attempted = <<>>
    /\ mergeLog = <<>>
    /\ clean = TRUE
    /\ qArgs = <<>>
    /\ qStatus = 0
    /\ qResults = <<>>
    /\ qFault = "none"
    /\ qConn = "unbound"
    /\ qRaised = "none"
    /\ ScriptsAtRest

\* upload_staging_to_prod returned and is called again.
upload_again ==
    /\ pc = "uploaded"
    /\ Len(mergeLog) < MaxMergeCalls
    /\ pc' = "upload"
    /\ UNCHANGED <<schema, staging, prod, txn, faults, mergeLog>>
    /\ UNCHANGED pipelineVars
    /\ UNCHANGED queryVars
    /\ UNCHANGED extractVars
    /\ UNCHANGED scriptVars
    /\ UNCHANGED formatVars

NextMerge ==
    \/ upload_execute
    \/ upload_commit
    \/ upload_except
    \/ upload_again

MergeSpec == InitMerge /\ [][NextMerge]_vars

\* ------------------------------------------------------------- CatalogSpec
\* The start of main over sample trees and windows.
InitCatalog ==
    /\ schema = "no_key"
    /\ tree \in SampleTrees
    /\ run_config \in {RunConfig(s, e) : s \in SampleDates, e \in SampleDates}
    /\ catalog = NotCalled
    /\ df = NoFrame
    /\ formatted = NotFormatted
    /\ files = <<>>
    /\ pc = "idle"
    /\ idx = 0
    /\ loading_count = 0
    /\ staging = <<>>
    /\ prod = <<>>
    /\ txn = <<>>
    /\ runs = 0
    /\ faults = 0
    /\ batch = <<>>
    /\ attempted = <<>>
    /\ mergeLog = <<>>
    /\ clean = TRUE
    /\ qArgs = <<>>
    /\ qStatus = 0
    /\ qResults = <<>>
    /\ qFault = "none"
    /\ qConn = "unbound"
    /\ qRaised = "none"
    /\ ScriptsAtRest

NextCatalog == main_start

CatalogSpec == InitCatalog /\ [][NextCatalog]_vars

\* ------------------------------------------------- sample tables, FormatSpec
\* The header of a file of data.police.uk.
PoliceHeader ==
    <<<<"C", "r", "i", "m", "e", " ", "I", "D">>,
      <<"M", "o", "n", "t", "h">>,
      <<"R", "e", "p", "o", "r", "t", "e", "d", " ", "b", "y">>,
      <<"F", "a", "l", "l", "s", " ", "w", "i", "t", "h", "i", "n">>,
      <<"L", "o", "n", "g", "i", "t", "u", "d", "e">>,
      <<"L", "a", "t", "i", "t", "u", "d", "e">>,
      <<"L", "o", "c", "a", "t", "i", "o", "n">>,
      <<"L", "S", "O", "A", " ", "c", "o", "d", "e">>,
      <<"L", "S", "O", "A", " ", "n", "a", "m", "e">>,
      <<"C", "r", "i", "m", "e", " ", "t", "y", "p", "e">>>>

\* The headers of the sample tables: the one of the files, the one of a table
\* that is already normalised, two with columns missing, and none (the table
\* without columns has no rows).
SampleHeaders ==
    {PoliceHeader,
     SELECT_COLS,
     SelectSeq(PoliceHeader, LAMBDA col : col # PoliceHeader[5]),
     SelectSeq(PoliceHeader, LAMBDA col : col \notin {PoliceHeader[1], PoliceHeader[7]}),
     <<>>}

\* The field of a crime a column holds, by the label of the column.
FieldOf ==
    <<<<<<"C", "r", "i", "m", "e", " ", "I", "D">>, "crime_id">>,
      <<<<"M", "o", "n", "t", "h">>, "month_year">>,
      <<<<"R", "e", "p", "o", "r", "t", "e", "d", " ", "b", "y">>, "reported_by">>,
      <<<<"F", "a", "l", "l", "s", " ", "w", "i", "t", "h", "i", "n">>, "police_force">>,
      <<<<"L", "o", "n", "g", "i", "t", "u", "d", "e">>, "longitude">>,
      <<<<"L", "a", "t", "i", "t", "u", "d", "e">>, "latitude">>,
      <<<<"L", "o", "c", "a", "t", "i", "o", "n">>, "location_description">>,
      <<<<"L", "S", "O", "A", " ", "c", "o", "d", "e">>, "lsoa_code">>,
      <<<<"L", "S", "O", "A", " ", "n", "a", "m", "e">>, "lsoa_name">>,
      <<<<"C", "r", "i", "m", "e", " ", "t", "y", "p", "e">>, "crime_type">>,
      <<<<"c", "r", "i", "m", "e", "_", "i", "d">>, "crime_id">>,
      <<<<"m", "o", "n", "t", "h">>, "month_year">>,
      <<<<"f", "a", "l", "l", "s", "_", "w", "i", "t", "h", "i", "n">>, "police_force">>,
      <<<<"l", "o", "n", "g", "i", "t", "u", "d", "e">>, "longitude">>,
      <<<<"l", "a", "t", "i", "t", "u", "d", "e">>, "latitude">>,
      <<<<"l", "s", "o", "a", "_", "c", "o", "d", "e">>, "lsoa_code">>,
      <<<<"c", "r", "i", "m", "e", "_", "t", "y", "p", "e">>, "crime_type">>,
      <<<<"l", "o", "c", "a", "t", "i", "o", "n">>, "location_description">>,
      <<<<"r", "e", "p", "o", "r", "t", "e", "d", "_", "b", "y">>, "reported_by">>,
      <<<<"l", "s", "o", "a", "_", "n", "a", "m", "e">>, "lsoa_name">>>>

CrimeFields == {FieldOf[i][2] : i \in 1..Len(FieldOf)}

field_of(col) == FieldOf[CHOOSE i \in 1..Len(FieldOf) : FieldOf[i][1] = col][2]

\* The crimes of the sample tables: the identifier, the two coordinates and a
\* column format_dataframe does not select each take two values.
SampleCrimes ==
    {[f \in CrimeFields |->
        CASE f = "crime_id" -> id
          [] f = "longitude" -> lon
          [] f = "latitude" -> lat
          [] f = "reported_by" -> by
          [] OTHER -> f] :
        id \in {"c1", NaN}, lon \in {"-0.1", NaN}, lat \in {"51.5", NaN},
        by \in {"met", "city"}}

\* The table of the given crimes under the given header.
SampleFrame(header, crimes) ==
    DataFrame(header,
              [i \in 1..Len(crimes) |->
                  [j \in 1..Len(header) |-> crimes[i][field_of(header[j])]]])

InitFormat ==
    /\ schema = "no_key"
    /\ tree = MonthlyTree
    /\ run_config = RunConfig(strftime(MonthNo(1)), strftime(MonthNo(0)))
    /\ catalog = NotCalled
    /\ files = <<>>
    /\ df \in {SampleFrame(header, crimes) :
                 header \in SampleHeaders \ {<<>>},
                 crimes \in UNION {[1..n -> SampleCrimes] : n \in 0..MaxDfRows}}
                \cup {NoFrame}
    /\ formatted = NotFormatted
    /\ pc = "format"
    /\ idx = 0
    /\ loading_count = 0
    /\ staging = <<>>
    /\ prod = <<>>
    /\ txn = <<>>
    /\ runs = 0
    /\ faults = 0
    /\ batch = <<>>
    /\ attempted = <<>>
    /\ mergeLog = <<>>
    /\ clean = TRUE
    /\ qArgs = <<>>
    /\ qStatus = 0
    /\ qResults = <<>>
    /\ qFault = "none"
    /\ qConn = "unbound"
    /\ qRaised = "none"
    /\ ScriptsAtRest

NextFormat == format_dataframe

FormatSpec == InitFormat /\ [][NextFormat]_vars

\* --------------------------------------------------------------- QuerySpec
\* get_crimes on its own, over sample contents of crimes_prod.
SamplePoints == {<<0, 0>>, <<1, 0>>, <<0, 2>>, <<3, 3>>}

\* The production row of a crime at the given point.
CrimeAt(point) ==
    ProdRow([crime_id |-> 10 * point[1] + point[2],
             month_year |-> 1,
             police_force |-> "force",
             longitude |-> point[1],
             latitude |-> point[2],
             lsoa_code |-> "lsoa",
             crime_type |-> "type",
             location_description |-> "loc"])

SampleQueries ==
    {[longitude |-> lon, latitude |-> lat, radius |-> radius] :
        lon \in {0, 2}, lat \in {0, 1}, radius \in {1, 2}}

InitQuery ==
    /\ schema = "no_key"
    /\ tree = MonthlyTree
    /\ run_config = RunConfig(strftime(MonthNo(1)), strftime(MonthNo(0)))
    /\ catalog = NotCalled
    /\ df = NoFrame
    /\ formatted = NotFormatted
    /\ files = <<>>
    /\ pc = "serving"
    /\ idx = 0
    /\ loading_count = 0
    /\ staging = <<>>
    /\ prod \in UNION {[1..n -> {CrimeAt(point) : point \in SamplePoints}] :
                         n \in 0..MaxProdRows}
    /\ txn = <<>>
    /\ runs = 0
    /\ faults = 0
    /\ batch = <<>>
    /\ attempted = <<>>
    /\ mergeLog = <<>>
    /\ clean = TRUE
    /\ qArgs = <<>>
    /\ qStatus = 0
    /\ qResults = <<>>
    /\ qFault = "none"
    /\ qConn = "unbound"
    /\ qRaised = "none"
    /\ ScriptsAtRest

request ==
    \E q \in SampleQueries, fault \in StoreFaults :
        get_crimes(q.longitude, q.latitude, q.radius, fault)

NextQuery == request

QuerySpec == InitQuery /\ [][NextQuery]_vars

\* ---------------------------------------------------------------- LoadSpec
\* write_csv_to_staging statement by statement, in place of the single step
\* main_stage_file; the rest of main is as in Spec.

\* A faulty CopyIntoStaging: the connection is in autocommit mode and every row
\* COPY has read is in the table at once.
CopyIntoStagingAutocommit(rows) ==
    /\ txn' = <<>>
    /\ staging' = staging \o rows

\* COPY crimes_staging (...) FROM STDIN: the rows go to the connection's open
\* transaction; the table has none of them before connection.commit().
CopyIntoStaging(rows) ==
    /\ txn' = rows
    /\ staging' = staging

\* Lines 91-107: psycopg2.connect, open(file_path) and cursor.copy_expert.  The
\* COPY fails at any row of the file (a malformed line, a lost connection);
\* connect or open failing is the failure before the first row.
copy_expert ==
    /\ pc = "loop"
    /\ idx < Len(files)
    /\ LET rows == FileRows(files[idx + 1])
       IN  \/ /\ CopyIntoStaging(rows)
              /\ pc' = "load_commit"
              /\ UNCHANGED faults
           \/ /\ faults < MaxFaults
              /\ \E j \in 0..(Len(rows) - 1) : CopyIntoStaging(Prefix(rows, j))
              /\ pc' = "load_failed"
              /\ faults' = faults + 1
    /\ UNCHANGED <<schema, prod, mergeLog>>
    /\ UNCHANGED pipelineVars
    /\ UNCHANGED queryVars
    /\ UNCHANGED extractVars
    /\ UNCHANGED scriptVars
    /\ UNCHANGED formatVars

\* connection.commit(), line 108.
copy_commit ==
    /\ pc = "load_commit"
    /\ \/ /\ staging' = staging \o txn
          /\ txn' = <<>>
          /\ pc' = "load_ok"
          /\ UNCHANGED faults
       \/ /\ faults < MaxFaults
          /\ pc' = "load_failed"
          /\ faults' = faults + 1
          /\ UNCHANGED <<staging, txn>>
    /\ UNCHANGED <<schema, prod, mergeLog>>
    /\ UNCHANGED pipelineVars
    /\ UNCHANGED queryVars
    /\ UNCHANGED extractVars
    /\ UNCHANGED scriptVars
    /\ UNCHANGED formatVars

\* Lines 109-113 and 200-202: the exception, if any, is logged and swallowed,
\* the connection is closed, which discards what it has not committed, and main
\* counts the file.
copy_return ==
    /\ pc \in {"load_ok", "load_failed"}
    /\ LET ok == (pc = "load_ok")
       IN  /\ batch' = Append(batch, [file |-> files[idx + 1], ok |-> ok])
           /\ clean' = (clean /\ ok)
           /\ pc' = AfterLoad(ok)
    /\ txn' = <<>>
    /\ attempted' = Append(attempted, files[idx + 1])
    /\ idx' = idx + 1
    /\ loading_count' = loading_count + 1
    /\ UNCHANGED <<schema, files, staging, prod, runs, faults, mergeLog>>
    /\ UNCHANGED queryVars
    /\ UNCHANGED extractVars
    /\ UNCHANGED scriptVars
    /\ UNCHANGED formatVars

NextLoad ==
    \/ main_start
    \/ copy_expert
    \/ copy_commit
    \/ copy_return
    \/ main_exit
    \/ upload_execute
    \/ upload_commit
    \/ upload_except
    \/ truncate_staging

LoadSpec == Init /\ [][NextLoad]_vars

\* ---------------------------------------------- BigQuery: staging to production
\* NULL of SQL, and a value that is not NULL.
NULL == <<>>

Value(v) == <<v>>

\* a = b as a join condition: satisfied only when both sides are known and equal.
SqlEquals(a, b) == a # NULL /\ b # NULL /\ a = b

\* PARSE_DATE('%Y-%m', month), for a four-digit year and a two-digit month: the
\* first day of the month, NULL for NULL, an error for any other text.
PARSE_DATE(month) ==
    IF month = NULL THEN [ok |-> TRUE, date |-> NULL]
    ELSE LET parsed == strptime(month[1])
         IN  [ok |-> parsed.ok,
              date |-> IF parsed.ok THEN Value(<<parsed.year, parsed.month>>) ELSE NULL]

\* ST_GEOGPOINT(longitude, latitude): NULL when either argument is NULL.
ST_GEOGPOINT(longitude, latitude) ==
    IF longitude = NULL \/ latitude = NULL THEN NULL
    ELSE Value(<<longitude[1], latitude[1]>>)

\* WHERE longitude IS NOT NULL AND crime_id IS NOT NULL, lines 44-45.
StageWhere(s) == s.longitude # NULL /\ s.crime_id # NULL

\* The SELECT list of the USING subquery, lines 33-42.
StageRow(s) ==
    [crime_id |-> s.crime_id,
     month_year |-> PARSE_DATE(s.month).date,
     police_force |-> s.falls_within,
     longitude |-> s.longitude,
     latitude |-> s.latitude,
     lsoa_code |-> s.lsoa_code,
     crime_type |-> s.crime_type,
     location_description |-> s.location,
     geo_point |-> ST_GEOGPOINT(s.longitude, s.latitude)]

\* The USING subquery over the rows of the staging table.
StageSelect(rows) ==
    LET kept == SelectSeq(rows, StageWhere)
    IN  [i \in 1..Len(kept) |-> StageRow(kept[i])]

\* ON prod.crime_id = stage.crime_id AND prod.month_year = stage.month_year,
\* for one row of stage against the production table as the statement found it.
Matched(target, s) ==
    \E i \in 1..Len(target) :
        /\ SqlEquals(target[i].crime_id, s.crime_id)
        /\ SqlEquals(target[i].month_year, s.month_year)

\* WHEN NOT MATCHED THEN INSERT: every row of stage that no row of the target
\* matches is inserted; rows of stage are not compared with one another.
NotMatchedRows(target, stage) ==
    LET NotMatched(s) == ~Matched(target, s)
    IN  SelectSeq(stage, NotMatched)

\* load_staging_to_production, lines 19-76: the MERGE statement as one job.
\* The job fails as a whole when the API faults, when the staging table does not
\* have the columns the SELECT names, when a selected month is not a year and a
\* month, or when a row to insert has NULL in a REQUIRED column.
load_staging_to_production(stg, production, mode, fault) ==
    LET kept == SelectSeq(stg.rows, StageWhere)
        stage == StageSelect(stg.rows)
        inserted == NotMatchedRows(production, stage)
        error ==
            IF fault THEN "GoogleAPIError"
            ELSE IF ~stg.exists THEN "NotFound"
            ELSE IF stg.columns # "staging_schema" THEN "BadRequest"
            ELSE IF \E i \in 1..Len(kept) : ~PARSE_DATE(kept[i].month).ok THEN "BadRequest"
            ELSE IF mode = "REQUIRED"
                    /\ \E i \in 1..Len(inserted) : inserted[i].latitude = NULL
            THEN "BadRequest"
            ELSE "none"
    IN  [error |-> error,
         rows |-> IF error = "none" THEN production \o inserted ELSE production]

\* A record of the log: its level and the start of its message.
Logged(level, message) == [level |-> level, message |-> message]

NoTable == [exists |-> FALSE, columns |-> "none", rows |-> <<>>]

\* create_table_if_not_exists, table_checks.py lines 44-69, as __main__ calls it
\* (lines 113-122): for the staging table, with the schema of prod_schema.json.
create_table_if_not_exists(table) ==
    IF table.exists
    THEN [table |-> table, log |-> <<Logged("INFO", "Table already exists")>>]
    ELSE [table |-> [exists |-> TRUE, columns |-> "prod_schema", rows |-> <<>>],
          log |-> <<Logged("INFO", "Table created")>>]

\* delete_staging_table, lines 79-93: every exception is logged and swallowed.
delete_staging_table(table, fault) ==
    IF fault
    THEN [table |-> table, log |-> <<Logged("ERROR", "Failed to delete staging table")>>]
    ELSE IF ~table.exists
    THEN [table |-> table, log |-> <<Logged("WARNING", "Staging table not found")>>]
    ELSE [table |-> NoTable, log |-> <<Logged("INFO", "Staging table deleted")>>]

\* A faulty after_load: the deletion is in a finally clause.
after_load_finally(error) == "delete"

\* Lines 125-132: the call of delete_staging_table follows the call of
\* load_staging_to_production inside the try block; an exception of the load
\* goes to the except clause.
after_load(error) == IF error = "none" THEN "delete" ELSE "except"

\* __main__, lines 116-122.  An exception of create_table_if_not_exists is not
\* caught and ends the script.
bq_main_create_table ==
    /\ bq_pc = "create_table"
    /\ \/ LET r == create_table_if_not_exists(staging_table)
          IN  /\ staging_table' = r.table
              /\ bq_log' = bq_log \o r.log
              /\ bq_pc' = "load"
       \/ /\ bq_pc' = "raised"
          /\ UNCHANGED <<staging_table, bq_log>>
    /\ UNCHANGED <<latitude_mode, production_table>>
    /\ UNCHANGED <<schema, pc, staging, prod, txn, faults, mergeLog>>
    /\ UNCHANGED <<pipelineVars, queryVars, extractVars, formatVars, reorgVars>>

\* __main__, line 126.
bq_main_load ==
    /\ bq_pc = "load"
    /\ \E fault \in BOOLEAN :
        LET r == load_staging_to_production(staging_table, production_table,
                                            latitude_mode, fault)
        IN  /\ production_table' = r.rows
            /\ bq_log' = bq_log \o <<Logged("INFO", "Starting query job")>>
                           \o (IF r.error = "none"
                               THEN <<Logged("INFO", "Data successfully loaded")>>
                               ELSE <<>>)
            /\ bq_pc' = after_load(r.error)
    /\ UNCHANGED <<latitude_mode, staging_table>>
    /\ UNCHANGED <<schema, pc, staging, prod, txn, faults, mergeLog>>
    /\ UNCHANGED <<pipelineVars, queryVars, extractVars, formatVars, reorgVars>>

\* __main__, line 129.
bq_main_delete ==
    /\ bq_pc = "delete"
    /\ \E fault \in BOOLEAN :
        LET r == delete_staging_table(staging_table, fault)
        IN  /\ staging_table' = r.table
            /\ bq_log' = bq_log \o r.log
    /\ bq_pc' = "end"
    /\ UNCHANGED <<latitude_mode, production_table>>
    /\ UNCHANGED <<schema, pc, staging, prod, txn, faults, mergeLog>>
    /\ UNCHANGED <<pipelineVars, queryVars, extractVars, formatVars, reorgVars>>

\* __main__, lines 131-132.
bq_main_except ==
    /\ bq_pc = "except"
    /\ bq_log' = Append(bq_log, Logged("ERROR", "Failed to load data from staging to production"))
    /\ bq_pc' = "end"
    /\ UNCHANGED <<latitude_mode, staging_table, production_table>>
    /\ UNCHANGED <<schema, pc, staging, prod, txn, faults, mergeLog>>
    /\ UNCHANGED <<pipelineVars, queryVars, extractVars, formatVars, reorgVars>>

\* ------------------------------------------------------------------ BqSpec
\* The script on sample tables.
StagingRow(crime_id, month, longitude, latitude, crime_type) ==
    [crime_id |-> crime_id,
     month |-> month,
     falls_within |-> Value("force"),
     longitude |-> longitude,
     latitude |-> latitude,
     lsoa_code |-> Value("lsoa"),
     crime_type |-> Value(crime_type),
     location |-> Value("loc")]

January == Value(strftime(<<2023, 1>>))

February == Value(strftime(<<2023, 2>>))

\* Rows with and without an identifier and a position, two that differ in a
\* field outside the key, and one whose month is not a month.
SampleStagingRows ==
    {StagingRow(Value(1), January, Value(0), Value(0), "a"),
     StagingRow(Value(1), January, Value(0), Value(0), "b"),
     StagingRow(Value(1), February, Value(0), Value(0), "a"),
     StagingRow(Value(2), January, Value(1), Value(0), "a"),
     StagingRow(NULL, January, Value(0), Value(0), "a"),
     StagingRow(Value(3), January, NULL, NULL, "a"),
     StagingRow(Value(3), January, Value(0), NULL, "a"),
     StagingRow(Value(2), Value(<<"2", "0", "2", "3", "-", "1", "3">>), Value(0), Value(0), "a")}

SampleStagingTables ==
    {NoTable}
        \cup {[exists |-> TRUE, columns |-> "staging_schema", rows |-> t] :
                t \in UNION {[1..n -> SampleStagingRows] : n \in 0..MaxStagingRows}}

\* Production tables without NULL and without two rows of one key.
SampleProductionTables ==
    {<<>>,
     StageSelect(<<StagingRow(Value(1), January, Value(0), Value(0), "a")>>),
     StageSelect(<<StagingRow(Value(1), January, Value(0), Value(0), "a"),
                   StagingRow(Value(2), January, Value(1), Value(0), "a")>>)}

\* main and get_crimes are not running.
PipelineAtRest ==
    /\ schema = "no_key"
    /\ run_config = RunConfig(strftime(MonthNo(1)), strftime(MonthNo(0)))
    /\ tree = NoTree
    /\ catalog = NotCalled
    /\ df = NoFrame
    /\ formatted = NotFormatted
    /\ files = <<>>
    /\ pc = "idle"
    /\ idx = 0
    /\ loading_count = 0
    /\ staging = <<>>
    /\ prod = <<>>
    /\ txn = <<>>
    /\ runs = 0
    /\ faults = 0
    /\ batch = <<>>
    /\ attempted = <<>>
    /\ mergeLog = <<>>
    /\ clean = TRUE
    /\ qArgs = <<>>
    /\ qStatus = 0
    /\ qResults = <<>>
    /\ qFault = "none"
    /\ qConn = "unbound"
    /\ qRaised = "none"

InitBq ==
    /\ PipelineAtRest
    /\ ReorgAtRest
    /\ latitude_mode \in {"NULLABLE", "REQUIRED"}
    /\ staging_table \in SampleStagingTables
    /\ production_table \in SampleProductionTables
    /\ bq_pc = "create_table"
    /\ bq_log = <<>>

NextBq ==
    \/ bq_main_create_table
    \/ bq_main_load
    \/ bq_main_delete
    \/ bq_main_except

BqSpec == InitBq /\ [][NextBq]_vars

\* ------------------------------------------------ clean_and_reorganise_data
\* str.split(sep), for a separator of one character.
RECURSIVE split(_, _)
split(str, sep) ==
    IF \A i \in 1..Len(str) : str[i] # sep THEN <<str>>
    ELSE LET k == CHOOSE i \in 1..Len(str) :
                      str[i] = sep /\ \A j \in 1..(i - 1) : str[j] # sep
         IN  <<SubSeq(str, 1, k - 1)>> \o split(SubSeq(str, k + 1, Len(str)), sep)

Street == <<"-", "s", "t", "r", "e", "e", "t">>

LoadDate == <<"l", "o", "a", "d", "_", "d", "a", "t", "e">>

\* datetime.today().strftime('%Y-%m-%d'), the day of the call.
Today == <<"2", "0", "2", "4", "-", "0", "1", "-", "0", "1">>

\* Lines 139-144: the file name without "<year_month>-", "-street" and ".csv".
region_of(year_month, region_file_name) ==
    remove(remove(remove(region_file_name, year_month \o <<"-">>), Street), DotCsv)

\* Lines 150-154: output_folder/region/year/month.csv, as its components below
\* output_folder.
new_region_file(year_month, region_file_name) ==
    LET parts == split(year_month, "-")
    IN  <<region_of(year_month, region_file_name), parts[1], parts[2] \o DotCsv>>

\* df['load_date'] = value: the column is appended, or overwritten when the
\* frame has one of that label.
set_load_date(frame, value) ==
    IF \E c \in 1..Len(frame.columns) : frame.columns[c] = LoadDate
    THEN DataFrame(frame.columns,
                   [r \in 1..Len(frame.rows) |->
                       [c \in 1..Len(frame.columns) |->
                           IF frame.columns[c] = LoadDate THEN value ELSE frame.rows[r][c]]])
    ELSE DataFrame(Append(frame.columns, LoadDate),
                   [r \in 1..Len(frame.rows) |-> Append(frame.rows[r], value)])

\* Lines 160-163: the labels normalised, the column load_date set.
cleaned(frame) ==
    set_load_date(
        set_columns(frame, [c \in 1..Len(frame.columns) |-> normalise(frame.columns[c])]),
        Today)

\* pd.read_csv(original_path): raises when the file cannot be read or holds no
\* column to parse.
read_csv(file, fault) ==
    IF fault THEN [error |-> "OSError", df |-> NoFrame]
    ELSE IF ~file.exists THEN [error |-> "FileNotFoundError", df |-> NoFrame]
    ELSE IF file.content.columns = <<>> THEN [error |-> "EmptyDataError", df |-> NoFrame]
    ELSE [error |-> "none", df |-> file.content]

\* A file of a directory tree is written: what was at the path is replaced.
write_file(fs, path, content) ==
    {f \in fs : f.path # path} \cup {[path |-> path, content |-> content]}

\* df.to_csv(new_region_file, index=False): the file is written; on a failure
\* nothing is written, or the file is left truncated.
to_csv(fs, path, frame, outcome) ==
    CASE outcome = "written" -> write_file(fs, path, frame)
      [] outcome = "truncated" -> write_file(fs, path, NoFrame)
      [] OTHER -> fs

\* A record of the log about one path.
LoggedPath(level, message, path) == [level |-> level, message |-> message, path |-> path]

ThisFolder == source_folder[year_month_folder]

ThisFile == ThisFolder.files[region_file]

\* original_path, below source_folder.
original_path == <<ThisFolder.name, ThisFile.name>>

\* A faulty after_to_csv: the original is removed whether the copy was written
\* or not.
after_to_csv_unchecked(written) == "remove"

\* Lines 157-175: os.remove follows df.to_csv inside the try block; an
\* exception of to_csv goes to the except clause.
after_to_csv(written) == IF written THEN "remove" ELSE "except"

\* Lines 113-119: the year-month directories of source_folder are listed.
fm_listdir ==
    /\ fm_pc = "listdir"
    /\ fm_log' = Append(fm_log, LoggedPath("INFO", "Found year-month folders", <<>>))
    /\ year_month_folder' = 1
    /\ fm_pc' = "folder"
    /\ UNCHANGED <<source_folder, output_folder, region_file, read_df>>
    /\ UNCHANGED <<schema, pc, staging, prod, txn, faults, mergeLog>>
    /\ UNCHANGED <<pipelineVars, queryVars, extractVars, formatVars, bqVars>>

\* Lines 122-131: the next folder; a name that does not split in two at "-" is
\* logged and the folder is skipped.
fm_folder ==
    /\ fm_pc = "folder"
    /\ IF year_month_folder > Len(source_folder)
       THEN /\ fm_pc' = "done"
            /\ UNCHANGED <<fm_log, year_month_folder, region_file>>
       ELSE IF Len(split(ThisFolder.name, "-")) # 2
       THEN /\ fm_log' = fm_log
                    \o <<LoggedPath("INFO", "Processing folder", <<ThisFolder.name>>),
                         LoggedPath("ERROR", "Invalid folder name format", <<ThisFolder.name>>)>>
            /\ year_month_folder' = year_month_folder + 1
            /\ fm_pc' = "folder"
            /\ UNCHANGED region_file
       ELSE /\ fm_log' = Append(fm_log, LoggedPath("INFO", "Processing folder", <<ThisFolder.name>>))
            /\ region_file' = 1
            /\ fm_pc' = "file"
            /\ UNCHANGED year_month_folder
    /\ UNCHANGED <<source_folder, output_folder, read_df>>
    /\ UNCHANGED <<schema, pc, staging, prod, txn, faults, mergeLog>>
    /\ UNCHANGED <<pipelineVars, queryVars, extractVars, formatVars, bqVars>>

\* Lines 134-154: the next file of the listing of the folder.  os.makedirs is
\* outside the try block: its exception ends the call.
fm_file ==
    /\ fm_pc = "file"
    /\ IF region_file > Len(ThisFolder.files)
       THEN fm_pc' = "rmdir"
       ELSE \/ fm_pc' = "read"
            \/ fm_pc' = "raised"
    /\ UNCHANGED <<source_folder, output_folder, year_month_folder, region_file, read_df,
                   fm_log>>
    /\ UNCHANGED <<schema, pc, staging, prod, txn, faults, mergeLog>>
    /\ UNCHANGED <<pipelineVars, queryVars, extractVars, formatVars, bqVars>>

\* Lines 159-163.  When read_csv raises, df keeps the frame of the file before.
fm_read ==
    /\ fm_pc = "read"
    /\ \E fault \in BOOLEAN :
        LET r == read_csv(ThisFile, fault)
        IN  IF r.error = "none"
            THEN /\ read_df' = cleaned(r.df)
                 /\ fm_pc' = "write"
            ELSE /\ read_df' = read_df
                 /\ fm_pc' = "except"
    /\ UNCHANGED <<source_folder, output_folder, year_month_folder, region_file, fm_log>>
    /\ UNCHANGED <<schema, pc, staging, prod, txn, faults, mergeLog>>
    /\ UNCHANGED <<pipelineVars, queryVars, extractVars, formatVars, bqVars>>

\* Lines 166-168.
fm_write ==
    /\ fm_pc = "write"
    /\ \E outcome \in {"written", "truncated", "failed"} :
        /\ output_folder' = to_csv(output_folder,
                                   new_region_file(ThisFolder.name, ThisFile.name),
                                   read_df, outcome)
        /\ fm_log' = IF outcome = "written"
                     THEN Append(fm_log, LoggedPath("INFO", "Processed and saved",
                                                    new_region_file(ThisFolder.name, ThisFile.name)))
                     ELSE fm_log
        /\ fm_pc' = after_to_csv(outcome = "written")
    /\ UNCHANGED <<source_folder, year_month_folder, region_file, read_df>>
    /\ UNCHANGED <<schema, pc, staging, prod, txn, faults, mergeLog>>
    /\ UNCHANGED <<pipelineVars, queryVars, extractVars, formatVars, bqVars>>

\* Lines 171-172: os.remove(original_path), then the next file.
fm_remove ==
    /\ fm_pc = "remove"
    /\ \/ /\ source_folder' =
                [source_folder EXCEPT ![year_month_folder].files[region_file].exists = FALSE]
          /\ fm_log' = Append(fm_log, LoggedPath("INFO", "Deleted original file", original_path))
          /\ region_file' = region_file + 1
          /\ fm_pc' = "file"
       \/ /\ fm_pc' = "except"
          /\ UNCHANGED <<source_folder, fm_log, region_file>>
    /\ UNCHANGED <<output_folder, year_month_folder, read_df>>
    /\ UNCHANGED <<schema, pc, staging, prod, txn, faults, mergeLog>>
    /\ UNCHANGED <<pipelineVars, queryVars, extractVars, formatVars, bqVars>>

\* Lines 174-175: the exception is logged; the loop goes on with the next file.
fm_except ==
    /\ fm_pc = "except"
    /\ fm_log' = Append(fm_log, LoggedPath("ERROR", "Error processing file", original_path))
    /\ region_file' = region_file + 1
    /\ fm_pc' = "file"
    /\ UNCHANGED <<source_folder, output_folder, year_month_folder, read_df>>
    /\ UNCHANGED <<schema, pc, staging, prod, txn, faults, mergeLog>>
    /\ UNCHANGED <<pipelineVars, queryVars, extractVars, formatVars, bqVars>>

\* Lines 178-182: os.rmdir fails on a folder that is not empty; the failure is
\* logged.  Then the next folder.
fm_rmdir ==
    /\ fm_pc = "rmdir"
    /\ IF \A j \in 1..Len(ThisFolder.files) : ~ThisFolder.files[j].exists
       THEN /\ source_folder' = [source_folder EXCEPT ![year_month_folder].exists = FALSE]
            /\ fm_log' = Append(fm_log, LoggedPath("INFO", "Deleted empty folder", <<ThisFolder.name>>))
       ELSE /\ source_folder' = source_folder
            /\ fm_log' = Append(fm_log, LoggedPath("ERROR", "Error deleting folder", <<ThisFolder.name>>))
    /\ year_month_folder' = year_month_folder + 1
    /\ fm_pc' = "folder"
    /\ UNCHANGED <<output_folder, region_file, read_df>>
    /\ UNCHANGED <<schema, pc, staging, prod, txn, faults, mergeLog>>
    /\ UNCHANGED <<pipelineVars, queryVars, extractVars, formatVars, bqVars>>

\* --------------------------------------------------------------- ReorgSpec
\* clean_and_reorganise_data on sample source folders.
SourceFile(name, content) == [name |-> name, content |-> content, exists |-> TRUE]

SourceFolder(name, folder_files) == [name |-> name, exists |-> TRUE, files |-> folder_files]

\* <year_month>-<region>-street.csv
StreetCsv(year_month, region) == year_month \o <<"-">> \o region \o Street \o DotCsv

\* The street files of two regions, and a file named after the first region
\* alone.
SampleFileNames(year_month) ==
    {StreetCsv(year_month, <<"a">>), StreetCsv(year_month, <<"b">>), <<"a">> \o DotCsv}

\* A table of one row and a file without a column.
SampleContents ==
    {DataFrame(<<<<"C", "r", "i", "m", "e", " ", "I", "D">>>>, <<<<"1">>>>),
     NoFrame}

SampleFolderFiles(year_month) ==
    {fs \in UNION {[1..n -> {SourceFile(name, content) :
                                name \in SampleFileNames(year_month),
                                content \in SampleContents}] : n \in 0..MaxSourceFiles} :
        \A i, j \in 1..Len(fs) : i # j => fs[i].name # fs[j].name}

\* Names of folders: a year and a month, and two that are not.
SampleFolderNames ==
    {strftime(<<2023, 1>>),
     <<"b", "a", "d">>,
     strftime(<<2023, 1>>) \o <<"-", "0", "1">>}

\* One sample folder, alone or followed by the folder of the next month.
SampleSources ==
    LET first == {SourceFolder(name, fs) :
                    name \in SampleFolderNames, fs \in SampleFolderFiles(strftime(<<2023, 1>>))}
        next == SourceFolder(strftime(<<2023, 2>>),
                             <<SourceFile(StreetCsv(strftime(<<2023, 2>>), <<"a">>),
                                          DataFrame(<<<<"M", "o", "n", "t", "h">>>>, <<<<"2">>>>))>>)
    IN  {<<f>> : f \in first} \cup {<<f, next>> : f \in first}

InitReorg ==
    /\ PipelineAtRest
    /\ BqAtRest
    /\ source_folder \in SampleSources
    /\ output_folder = {}
    /\ fm_pc = "listdir"
    /\ year_month_folder = 0
    /\ region_file = 0
    /\ read_df = NoFrame
    /\ fm_log = <<>>

NextReorg ==
    \/ fm_listdir
    \/ fm_folder
    \/ fm_file
    \/ fm_read
    \/ fm_write
    \/ fm_remove
    \/ fm_except
    \/ fm_rmdir

ReorgSpec == InitReorg /\ [][NextReorg]_vars

\* ================================================================== claims
\* The size of crimes_prod when call i of upload_staging_to_prod had returned:
\* the size the next call found, or the present size for the latest call.
After(i) ==
    IF i < Len(mergeLog) THEN mergeLog[i + 1].before ELSE Len(prod)

\* The rows the calls of write_csv_to_staging that succeeded in batch b staged.
StagedRowsOf(b) ==
    UNION {Range(FileRows(b[k].file)) : k \in {m \in 1..Len(b) : b[m].ok}}

SkippedRowsOf(b) ==
    UNION {Range(FileRows(b[k].file)) : k \in {m \in 1..Len(b) : ~b[m].ok}}

Keys(table) == {Key(table[i]) : i \in 1..Len(table)}

\* C1: no two rows of the production store share (crime_id, month_year), after
\* any sequence of pipeline runs.
C1_KeyUniqueness ==
    \A i, j \in 1..Len(prod) : i # j => Key(prod[i]) # Key(prod[j])

\* C2: a second merge over the same, unchanged staging content leaves the
\* production store with as many rows as the first one left.
C2_MergeIdempotent ==
    \A i \in 1..(Len(mergeLog) - 1) :
        (/\ mergeLog[i].status = "ok"
         /\ mergeLog[i + 1].status # "running"
         /\ mergeLog[i + 1].staged = mergeLog[i].staged)
            => After(i + 1) = After(i)

\* C3: a merge changes and removes no row that is in the production store, and
\* inserts no row whose (crime_id, month_year) a row of the store already has.
C3_InsertIfAbsent ==
    [][prod' # prod =>
        /\ Len(prod') >= Len(prod)
        /\ Prefix(prod', Len(prod)) = prod
        /\ \A i \in (Len(prod) + 1)..Len(prod') : Key(prod'[i]) \notin Keys(prod)]_vars

\* C4: the step of main that follows upload_staging_to_prod truncates the staging
\* table only if that merge succeeded; after a failed merge the staging table
\* still holds the rows it held when the merge was called.
C4_TruncateOnlyAfterSuccess ==
    [][(pc = "uploaded" /\ pc' = "loop") =>
        \/ Last(mergeLog).status = "ok"
        \/ staging' = Last(mergeLog).staged]_vars

\* C5: the production store always consists of whole batches: each call of
\* upload_staging_to_prod has contributed either every row it selected from
\* staging (it succeeded) or none (it failed, or has not committed yet); and the
\* rows a get_crimes request returned are those of the store as it stood at a
\* boundary between two merges.
C5_BatchAtomicVisibility ==
    /\ mergeLog # <<>> => mergeLog[1].before = 0
    /\ mergeLog = <<>> => prod = <<>>
    /\ \A i \in 1..Len(mergeLog) :
        /\ mergeLog[i].before <= After(i)
        /\ After(i) <= Len(prod)
        /\ SubSeq(prod, mergeLog[i].before + 1, After(i))
             = IF mergeLog[i].status = "ok"
               THEN SelectFromStaging(mergeLog[i].staged)
               ELSE <<>>
    /\ qStatus # 0 =>
        \E b \in {0} \cup {mergeLog[i].before : i \in 1..Len(mergeLog)}
                 \cup {After(i) : i \in {m \in 1..Len(mergeLog) :
                                            mergeLog[m].status = "ok"}} :
            /\ b <= Len(prod)
            /\ qResults = SelectWithin(Prefix(prod, b), qArgs.longitude,
                                       qArgs.latitude, qArgs.radius)

\* A merge failed after inserting some but not all rows of the second batch, the
\* first batch is committed, and a request has returned rows.
C5_Witness ==
    /\ pc = "upload_failed"
    /\ Len(mergeLog) = 2
    /\ mergeLog[1].status = "ok"
    /\ txn # <<>>
    /\ Len(txn) < Len(staging)
    /\ Len(prod) = Len(mergeLog[1].staged)
    /\ qStatus = 200
    /\ qResults # <<>>

\* C6: a run in which every step succeeded ends with ceil(n / BatchSize) merges
\* made, all of them successful, and with an empty staging table.
C6_BatchingAndFinalPartial ==
    (pc = "done" /\ clean) =>
        /\ Len(mergeLog) = (Len(files) + BatchSize - 1) \div BatchSize
        /\ \A i \in 1..Len(mergeLog) : mergeLog[i].status = "ok"
        /\ staging = <<>>

\* C7: the staging table is empty whenever the loop is about to stage the first
\* file of a batch, and whenever a batch whose merge succeeded has been dealt with.
C7_StagingBatchScoped ==
    /\ (pc = "loop" /\ loading_count = 0 /\ idx < Len(files)) => staging = <<>>
    /\ (/\ pc = "loop"
        /\ loading_count = 0
        /\ idx > 0
        /\ Last(mergeLog).status = "ok") => staging = <<>>

\* C8: if the merge of batch 2 failed, the rows of batch 1 are in production, the
\* rows staged for batch 2 are all in staging and none of them is in production,
\* and no file of batch 3 has been staged.
C8_AtomicityUnderFailure ==
    (Len(mergeLog) >= 2 /\ mergeLog[2].status = "failed") =>
        /\ mergeLog[1].status = "ok" =>
             Range(SelectFromStaging(mergeLog[1].staged)) \subseteq Range(prod)
        /\ StagedRowsOf(mergeLog[2].files) \subseteq Range(staging)
        /\ \A r \in StagedRowsOf(mergeLog[2].files) : ProdRow(r) \notin Range(prod)
        /\ idx <= 2 * BatchSize

\* C9: once the loop has started, the run ends, and it ends with every file of
\* the sequence passed to write_csv_to_staging exactly once, in order; no batch
\* is merged a second time.
C9_RunCompletion ==
    /\ (pc = "loop") ~> (pc = "done" /\ attempted = files)
    /\ [](attempted = Prefix(files, idx))
    /\ [](Len(mergeLog) * BatchSize <= idx)

\* A run over MaxFiles files has ended after a step of it failed.
C9_Witness ==
    /\ pc = "done"
    /\ ~clean
    /\ Len(files) = MaxFiles
    /\ attempted = files

LoadPcs == {"load_commit", "load_ok", "load_failed"}

\* C11: a call of write_csv_to_staging changes the staging table at most once,
\* at its commit, and then by appending every row of the file after the rows the
\* table held; a call that failed at any row leaves the table as it was, and
\* nothing uncommitted is left when the call has returned.
C11_LoadAtomic ==
    /\ [](pc \notin (LoadPcs \cup {"upload_commit", "upload_failed"}) => txn = <<>>)
    /\ [][(pc \in LoadPcs \/ pc' \in LoadPcs) =>
            \/ staging' = staging
            \/ /\ pc = "load_commit"
               /\ pc' = "load_ok"
               /\ staging' = staging \o FileRows(files[idx + 1])]_vars
    /\ [][(pc \in LoadPcs /\ pc' \notin LoadPcs /\ pc = "load_ok") =>
            LET rows == FileRows(files[idx + 1])
            IN  /\ Len(staging') >= Len(rows)
                /\ SubSeq(staging', Len(staging') - Len(rows) + 1, Len(staging')) = rows]_vars

\* A COPY failed after the first of the two rows of a file, with rows of an
\* earlier file in the staging table.
C11_Witness ==
    /\ pc = "load_failed"
    /\ Len(txn) = 1
    /\ Len(FileRows(files[idx + 1])) = 2
    /\ staging # <<>>

\* The years and regions of the sample trees and windows.
Years == 2022..(2023 + (MaxFiles \div 12))

RegionNames == {"a", "b"}

\* The file p is data_path/region/year/month.csv for the month m of the year y.
Dated(p, y, m) == \E name \in RegionNames : p = PathOf(name, y, m)

WellPlaced(p) == \E y \in Years, m \in 1..12 : Dated(p, y, m)

\* The text str is the month m of the year y, written YYYY-MM.
Written(str, y, m) == str = strftime(<<y, m>>)

\* The month m of the year y is in the window from start_date to end_date.
InWindow(y, m) ==
    \E ys \in Years, ye \in Years, ms \in 1..12, me \in 1..12 :
        /\ Written(run_config.start_date, ys, ms)
        /\ Written(run_config.end_date, ye, me)
        /\ ys * 12 + ms <= y * 12 + m
        /\ y * 12 + m <= ye * 12 + me

\* C12: over a tree laid out as region/year/month.csv, and for a window whose
\* ends are written YYYY-MM with the start not after the end,
\* extract_relevant_csv_files returns, once each, the files whose month is in
\* the window, and no other.
C12_PartitionSelection ==
    (/\ pc # "idle"
     /\ tree.exists
     /\ \A i \in 1..Len(tree.walk) : WellPlaced(tree.walk[i])
     /\ \E y \in Years, m \in 1..12 : Written(run_config.start_date, y, m) /\ InWindow(y, m))
        => /\ catalog.error = "none"
           /\ Range(catalog.csv_files)
                = {p \in Range(tree.walk) :
                     \E y \in Years, m \in 1..12 : Dated(p, y, m) /\ InWindow(y, m)}
           /\ Cardinality(Range(catalog.csv_files)) = Len(catalog.csv_files)

\* A window from 2023 to 2024 over a tree of three files: those of December 2023
\* and of January 2024 are returned, that of July 2022 is not.
C12_Witness ==
    /\ pc = "loop"
    /\ Len(tree.walk) = 3
    /\ \A i \in 1..3 : WellPlaced(tree.walk[i])
    /\ Range(catalog.csv_files) = {PathOf("a", 2023, 12), PathOf("b", 2024, 1)}
    /\ PathOf("a", 2022, 7) \in Range(tree.walk)

\* C13: a file of the tree that is not data_path/region/year/month.csv is not
\* among the files extract_relevant_csv_files returns, and the call raises no
\* error because of it.
C13_StrayFilesSkipped ==
    (pc # "idle" /\ catalog.error = "none") =>
        \A i \in 1..Len(tree.walk) :
            ~WellPlaced(tree.walk[i]) => tree.walk[i] \notin Range(catalog.csv_files)

\* The text str is a year and a month, the month with or without its leading
\* zero.
Parseable(str) ==
    \E y \in Years, m \in 1..12 :
        \/ Written(str, y, m)
        \/ str = YearDir(y) \o <<"-">>
                   \o (IF m < 10 THEN <<Digit(m)>> ELSE <<Digit(m \div 10), Digit(m)>>)

\* C14: when data_path does not exist, or start_date or end_date is not a year
\* and a month, extract_relevant_csv_files raises an error, main ends there, and
\* no file was loaded, no merge was made and nothing was truncated.
C14_ConfigErrorsFatal ==
    (/\ pc # "idle"
     /\ \/ ~tree.exists
        \/ ~Parseable(run_config.start_date)
        \/ ~Parseable(run_config.end_date))
        => /\ pc = "aborted"
           /\ catalog.error \in {"FileNotFoundError", "ValueError"}
           /\ catalog.csv_files = <<>>
           /\ attempted = <<>>
           /\ mergeLog = <<>>
           /\ staging = <<>>
           /\ prod = <<>>
           /\ faults = 0

\* main has ended on the ValueError of a malformed end_date.
C14_Witness ==
    /\ pc = "aborted"
    /\ catalog.error = "ValueError"
    /\ run_config.end_date \in MalformedDates
    /\ Parseable(run_config.start_date)

\* The eight fields of a record, in the order of RENAMED_COLUMNS.
CanonicalFields ==
    <<"crime_id", "month_year", "police_force", "longitude", "latitude", "lsoa_code",
      "crime_type", "location_description">>

\* The table has a column that holds the field f.
HasField(frame, f) == \E j \in 1..Len(frame.columns) : field_of(frame.columns[j]) = f

ValueOf(frame, row, f) ==
    row[CHOOSE j \in 1..Len(frame.columns) : field_of(frame.columns[j]) = f]

\* The record of a row: its values for the eight fields.
CanonicalRow(frame, row) ==
    [k \in 1..Len(CanonicalFields) |-> ValueOf(frame, row, CanonicalFields[k])]

Complete(frame, row) ==
    \A f \in {"longitude", "latitude", "crime_id"} : ValueOf(frame, row, f) # NaN

\* C15: for a table with at least one row and a column for each of the eight
\* fields, format_dataframe returns, once each, the records of the rows whose
\* longitude, latitude and crime_id are all present, under the eight canonical
\* column names, and raises nothing.
C15_NormalizationResult ==
    [][(/\ pc = "format"
        /\ Len(df.rows) > 0
        /\ \A f \in Range(CanonicalFields) : HasField(df, f))
          => /\ formatted'.error = "none"
             /\ formatted'.columns = RENAMED_COLUMNS
             /\ Range(formatted'.rows)
                  = {CanonicalRow(df, df.rows[i]) :
                       i \in {k \in 1..Len(df.rows) : Complete(df, df.rows[k])}}
             /\ Cardinality(Range(formatted'.rows)) = Len(formatted'.rows)]_vars

\* format_dataframe returned one record for a table of two complete rows that
\* differ only in a column that is not selected.
C15_Witness ==
    /\ pc = "formatted"
    /\ formatted.error = "none"
    /\ Len(df.rows) = 2
    /\ df.rows[1] # df.rows[2]
    /\ \A i \in 1..2, j \in 1..Len(df.columns) : df.rows[i][j] # NaN
    /\ Len(formatted.rows) = 1

\* C16: a call of format_dataframe leaves the caller's table as it was, its
\* column names included, whether the call returns or raises.
C16_NormalizationPure ==
    [][pc = "format" => df' = df]_vars

\* C17: format_dataframe raises the empty-input error for a table without rows,
\* and the schema error for a table with rows that has no column for one of the
\* eight fields; when it raises it returns no record.
C17_NormalizationErrors ==
    [][pc = "format"
          => /\ Len(df.rows) = 0 => formatted'.error = "ValueError"
             /\ (/\ Len(df.rows) > 0
                 /\ \E f \in Range(CanonicalFields) : ~HasField(df, f))
                   => formatted'.error = "KeyError"
             /\ formatted'.error # "none" =>
                   formatted'.rows = <<>> /\ formatted'.columns = <<>>]_vars

\* format_dataframe raised KeyError for a table of two rows without a longitude
\* column.
C17_Witness ==
    /\ pc = "formatted"
    /\ formatted.error = "KeyError"
    /\ Len(df.rows) = 2
    /\ ~HasField(df, "longitude")

\* C18: a request that matches no row while the store works is answered 404, and
\* a request is answered 500 only when the store faulted.
C18_EmptyIsNotBackendFault ==
    qStatus # 0 =>
        /\ (qFault = "none"
            /\ SelectWithin(prod, qArgs.longitude, qArgs.latitude, qArgs.radius) = <<>>)
              => qStatus = 404
        /\ qStatus = 500 => qFault # "none"

\* C19: when a request has ended, whichever way, the connection it opened is
\* closed, and the exception that left the handler, if any, is the one the
\* handler raised for the outcome: closing raised no other in its place.
C19_ConnectionScoped ==
    qStatus # 0 =>
        /\ qConn # "open"
        /\ (qFault = "connect") = (qConn = "unbound")
        /\ qRaised \in {"none", "HTTPException(404)", "HTTPException(500)"}

\* The rows of the production table within the radius of the last request's
\* point, by their positions.
HitsOf(table) ==
    {i \in 1..Len(table) :
        (table[i].geo_point[1] - qArgs.longitude) * (table[i].geo_point[1] - qArgs.longitude)
          + (table[i].geo_point[2] - qArgs.latitude) * (table[i].geo_point[2] - qArgs.latitude)
            <= qArgs.radius * qArgs.radius}

\* C20: a request leaves the production table as it is; when the store works
\* and some row is within the radius, the answer is 200 and carries the eight
\* selected columns of every row within the radius, once per row, and of no
\* other row; no answer carries a row that is not within the radius.
C20_ProximityResult ==
    /\ [][prod' = prod]_vars
    /\ [](qStatus # 0 =>
            /\ \A k \in 1..Len(qResults) :
                 \E i \in HitsOf(prod) : qResults[k] = QueryRow(prod[i])
            /\ (qFault = "none" /\ HitsOf(prod) # {}) =>
                 /\ qStatus = 200
                 /\ Len(qResults) = Cardinality(HitsOf(prod))
                 /\ \A i \in HitsOf(prod) :
                      Cardinality({k \in 1..Len(qResults) : qResults[k] = QueryRow(prod[i])})
                        = Cardinality({j \in HitsOf(prod) : prod[j] = prod[i]}))

\* A request over a table of two rows within its radius, one twice, and one
\* outside, answered with the two.
C20_Witness ==
    /\ pc = "serving"
    /\ qStatus = 200
    /\ Len(prod) = 3
    /\ Cardinality(HitsOf(prod)) = 2
    /\ Len(qResults) = 2

\* C21: record validity in production.  In every reachable state, every row of
\* the production table has a crime_id, a longitude and a latitude that are
\* not NULL, whatever rows the staging table holds.
C21_ProductionRowsValid ==
    \A i \in 1..Len(production_table) :
        /\ production_table[i].crime_id # NULL
        /\ production_table[i].longitude # NULL
        /\ production_table[i].latitude # NULL

\* No two rows of the table have the same (crime_id, month_year).
KeysUnique(table) ==
    \A i, j \in 1..Len(table) : i # j => Key(table[i]) # Key(table[j])

\* C22: the BigQuery merge preserves key uniqueness.  If no two rows of the
\* production table share (crime_id, month_year) when load_staging_to_production
\* is called, none do when it has run, whatever the staging table holds.
C22_MergeKeepsKeysUnique ==
    [][(bq_pc = "load" /\ KeysUnique(production_table))
          => KeysUnique(production_table')]_vars

HasLogged(message) == \E i \in 1..Len(bq_log) : bq_log[i].message = message

LoadCalled == HasLogged("Starting query job")

LoadCompleted == HasLogged("Data successfully loaded")

DeleteCalled ==
    \/ HasLogged("Staging table deleted")
    \/ HasLogged("Staging table not found")
    \/ HasLogged("Failed to delete staging table")

\* C23: staging cleanup ordering of the BigQuery script.  delete_staging_table
\* is called, and the staging table disappears, only once
\* load_staging_to_production has completed without error; when the load has
\* raised, the staging table is never deleted and, when the script has ended,
\* the error is in the log.
C23_DeleteOnlyAfterLoad ==
    /\ [][/\ (~DeleteCalled /\ DeleteCalled') => LoadCompleted
          /\ (staging_table.exists /\ ~staging_table'.exists) => LoadCompleted]_vars
    /\ []((LoadCalled /\ ~LoadCompleted)
            => /\ ~DeleteCalled
               /\ staging_table.exists
               /\ bq_pc \in {"except", "end"}
               /\ bq_pc = "end"
                    => Last(bq_log) = Logged("ERROR", "Failed to load data from staging to production"))

\* The load raised on a staging table that held rows, and the script has ended.
C23_Witness ==
    /\ bq_pc = "end"
    /\ LoadCalled /\ ~LoadCompleted
    /\ staging_table.exists /\ staging_table.rows # <<>>
    /\ HasLogged("Failed to load data from staging to production")

OriginalOf(i, j) == source_folder[i].files[j]

PathOfOriginal(i, j) == <<source_folder[i].name, OriginalOf(i, j).name>>

ErrorLogged(i, j) ==
    \E k \in 1..Len(fm_log) :
        fm_log[k] = LoggedPath("ERROR", "Error processing file", PathOfOriginal(i, j))

\* The cleaned copy of the original is at region/year/month.csv.
CopyWritten(i, j) ==
    [path |-> new_region_file(source_folder[i].name, OriginalOf(i, j).name),
     content |-> cleaned(OriginalOf(i, j).content)] \in output_folder

WellNamed(i) == Len(split(source_folder[i].name, "-")) = 2

ReadOrWriteFails ==
    \/ fm_pc = "read" /\ fm_pc' # "write"
    \/ fm_pc = "write" /\ fm_pc' # "remove"

\* C24: no source file is lost during reorganisation.  An original is deleted
\* only in a state where its cleaned copy is at region/year/month.csv; when
\* read_csv or to_csv fails the original stays in place, the except clause logs
\* the error and the loop goes on with the next file of the folder; so every
\* original with a logged error is still in place, and when the call returns
\* every file of a folder named year-month was either deleted or logged.
C24_NoSourceFileLost ==
    /\ [][/\ \A i \in 1..Len(source_folder) : \A j \in 1..Len(source_folder[i].files) :
                (OriginalOf(i, j).exists /\ ~source_folder'[i].files[j].exists)
                    => CopyWritten(i, j)
          /\ ReadOrWriteFails => (fm_pc' = "except" /\ source_folder' = source_folder)
          /\ fm_pc = "except"
                => /\ fm_log' = Append(fm_log, LoggedPath("ERROR", "Error processing file",
                                                          original_path))
                   /\ source_folder' = source_folder
                   /\ fm_pc' = "file"
                   /\ region_file' = region_file + 1
                   /\ year_month_folder' = year_month_folder]_vars
    /\ [](\A i \in 1..Len(source_folder) : \A j \in 1..Len(source_folder[i].files) :
            ErrorLogged(i, j) => OriginalOf(i, j).exists)
    /\ [](fm_pc = "done"
            => \A i \in 1..Len(source_folder) : WellNamed(i)
                => \A j \in 1..Len(source_folder[i].files) :
                     ~OriginalOf(i, j).exists \/ ErrorLogged(i, j))

\* The call has returned; a file that cannot be read is in place with its error
\* logged, and the file after it was deleted, its cleaned copy written.
C24_Witness ==
    /\ fm_pc = "done"
    /\ \E i \in 1..Len(source_folder) : \E j \in 1..Len(source_folder[i].files) :
        /\ j < Len(source_folder[i].files)
        /\ OriginalOf(i, j).content.columns = <<>>
        /\ OriginalOf(i, j).exists
        /\ ErrorLogged(i, j)
        /\ ~OriginalOf(i, j + 1).exists
        /\ CopyWritten(i, j + 1)

====
